---- MODULE Spec2Model ----
(***************************************************************************)
(* Session lifecycle and authentication of the exam platform dashboard:    *)
(* AuthenticationSystem (auth.py), execute_query (connection.py) and the   *)
(* per-run guard of main() (main.py).                                      *)
(*                                                                         *)
(* Time is counted in seconds.  A datetime is the record [dt |-> n]; a     *)
(* string holding an ISO timestamp is the record [iso |-> <<h, m, s>>].    *)
(* st.session_state is a function from the keys it holds to their values.  *)
(***************************************************************************)
EXTENDS Integers, Sequences, FiniteSets, TLC

VARIABLES
    session,    \* st.session_state of the interaction context
    now,        \* the wall clock read by datetime.now()
    view,       \* interface shown by the last run of main()
    message,    \* last st.error / st.warning / st.success of the run
    checked,    \* outcome of check_session_timeout() in the last run
    rerun,      \* st.rerun() was called and the next run is pending
    dashboard,  \* role dashboard rendered by the last run and the id it queried with
    call,       \* last operation of AuthenticationSystem and its arguments
    ret,        \* what that operation returned
    db,         \* connection bookkeeping of the last execute_query
    drift,      \* seconds the clock advanced inside handlers, between two reads
    peer        \* st.session_state of a second interaction context (browser session)

vars == <<session, now, view, message, checked, rerun, dashboard, call, ret, db, drift, peer>>

-----------------------------------------------------------------------------
(* Bounds of the model *)

MaxNow == 4300          \* the clock stops advancing here
MaxSkew == 1            \* seconds that may pass between two clock reads of one handler
MaxDrift == 2           \* total of such seconds over a behaviour

(* Program constants *)

DefaultTimeoutMinutes == 60
SecondsPerMinute == 60

-----------------------------------------------------------------------------
(* Python values *)

None == [type |-> "NoneType"]

datetime(n) == [dt |-> n]

isinstance_str(v) == "iso" \in DOMAIN v

isoformat(d) ==
    [iso |-> <<d.dt \div 3600, (d.dt % 3600) \div 60, d.dt % 60>>]

fromisoformat(s) ==
    [dt |-> s.iso[1] * 3600 + s.iso[2] * 60 + s.iso[3]]

timedelta(minutes) == minutes * SecondsPerMinute

\* dict.get(key, default)
Get(d, key, default) == IF key \in DOMAIN d THEN d[key] ELSE default

\* d[key] = value on a dict or on st.session_state
Put(d, key, value) == [k \in DOMAIN d \cup {key} |-> IF k = key THEN value ELSE d[k]]

\* dict.update(other)
Update(d, other) ==
    [k \in DOMAIN d \cup DOMAIN other |-> IF k \in DOMAIN other THEN other[k] ELSE d[k]]

EmptyState == [k \in {} |-> None]

-----------------------------------------------------------------------------
(* The users table read by the lookup query *)

users == <<
    [id |-> 1, username |-> "alice", role |-> "etudiant",         linked_id |-> 11,
     email |-> "alice@univ.dz", is_active |-> TRUE],
    [id |-> 2, username |-> "bob",   role |-> "professeur",       linked_id |-> 22,
     email |-> "bob@univ.dz",   is_active |-> TRUE],
    [id |-> 3, username |-> "carol", role |-> "chef_departement", linked_id |-> 33,
     email |-> "carol@univ.dz", is_active |-> TRUE],
    [id |-> 4, username |-> "dave",  role |-> "etudiant",         linked_id |-> 44,
     email |-> "dave@univ.dz",  is_active |-> FALSE]
>>

\* CASE u.role ... END as display_name
display_name(u) ==
    CASE u.role = "etudiant"   -> "Étudiant Test"
      [] u.role = "professeur" -> "Professeur Test"
      [] OTHER                 -> u.username

\* One row of the SELECT
Row(u) ==
    [id |-> u.id, username |-> u.username, role |-> u.role, linked_id |-> u.linked_id,
     email |-> u.email, display_name |-> display_name(u)]

\* variant: the WHERE clause without "AND u.is_active = TRUE"
IsMatch_IgnoresActive(u, username) == u.username = username

IsMatch(u, username) == u.username = username /\ u.is_active = TRUE

RECURSIVE SelectRows(_, _)
SelectRows(table, username) ==
    IF table = <<>> THEN <<>>
    ELSE LET rest == SelectRows(Tail(table), username)
         IN  IF IsMatch(Head(table), username)
             THEN <<Row(Head(table))>> \o rest
             ELSE rest

-----------------------------------------------------------------------------
(* connection.py *)

Faults == {"none", "connect", "execute", "commit", "rollback"}

\* SimpleConnection.get_connection: None when psycopg2.connect raises
get_connection(fault) == IF fault = "connect" THEN None ELSE [conn |-> 1]

\* variant: conn.close() at the end of the try and except blocks, no finally
execute_query_NoFinally(username, fault) ==
    LET conn == get_connection(fault)
    IN  IF conn = None
        THEN [rows |-> <<>>, raised |-> FALSE, attempts |-> 1, opened |-> 0, closed |-> 0,
              executed |-> FALSE, committed |-> FALSE, rolledback |-> FALSE]
        ELSE CASE fault = "none" ->
                    [rows |-> SelectRows(users, username), raised |-> FALSE,
                     attempts |-> 1, opened |-> 1, closed |-> 1,
                     executed |-> TRUE, committed |-> TRUE, rolledback |-> FALSE]
               [] fault = "execute" ->
                    [rows |-> <<>>, raised |-> FALSE,
                     attempts |-> 1, opened |-> 1, closed |-> 1,
                     executed |-> FALSE, committed |-> FALSE, rolledback |-> TRUE]
               [] fault = "commit" ->
                    [rows |-> <<>>, raised |-> FALSE,
                     attempts |-> 1, opened |-> 1, closed |-> 1,
                     executed |-> TRUE, committed |-> FALSE, rolledback |-> TRUE]
               [] OTHER ->
                    [rows |-> <<>>, raised |-> TRUE,
                     attempts |-> 1, opened |-> 1, closed |-> 0,
                     executed |-> FALSE, committed |-> FALSE, rolledback |-> FALSE]

\* variant: a connection that could not be opened is tried a second time
execute_query_Retry(username, fault) ==
    LET conn == get_connection(fault)
    IN  IF conn = None
        THEN [rows |-> <<>>, raised |-> FALSE, attempts |-> 2, opened |-> 0, closed |-> 0,
              executed |-> FALSE, committed |-> FALSE, rolledback |-> FALSE]
        ELSE CASE fault = "none" ->
                    [rows |-> SelectRows(users, username), raised |-> FALSE,
                     attempts |-> 1, opened |-> 1, closed |-> 1,
                     executed |-> TRUE, committed |-> TRUE, rolledback |-> FALSE]
               [] fault = "execute" ->
                    [rows |-> <<>>, raised |-> FALSE,
                     attempts |-> 1, opened |-> 1, closed |-> 1,
                     executed |-> FALSE, committed |-> FALSE, rolledback |-> TRUE]
               [] fault = "commit" ->
                    [rows |-> <<>>, raised |-> FALSE,
                     attempts |-> 1, opened |-> 1, closed |-> 1,
                     executed |-> TRUE, committed |-> FALSE, rolledback |-> TRUE]
               [] OTHER ->
                    [rows |-> <<>>, raised |-> TRUE,
                     attempts |-> 1, opened |-> 1, closed |-> 1,
                     executed |-> FALSE, committed |-> FALSE, rolledback |-> FALSE]

\* execute_query(query, (username,)) with fetch=True.  The result records the
\* returned rows, whether an exception left the function, and what happened
\* to the connection.
execute_query(username, fault) ==
    LET conn == get_connection(fault)
    IN  IF conn = None
        THEN [rows |-> <<>>, raised |-> FALSE, attempts |-> 1, opened |-> 0, closed |-> 0,
              executed |-> FALSE, committed |-> FALSE, rolledback |-> FALSE]
        ELSE CASE fault = "none" ->
                    [rows |-> SelectRows(users, username), raised |-> FALSE,
                     attempts |-> 1, opened |-> 1, closed |-> 1,
                     executed |-> TRUE, committed |-> TRUE, rolledback |-> FALSE]
               [] fault = "execute" ->
                    [rows |-> <<>>, raised |-> FALSE,
                     attempts |-> 1, opened |-> 1, closed |-> 1,
                     executed |-> FALSE, committed |-> FALSE, rolledback |-> TRUE]
               [] fault = "commit" ->
                    [rows |-> <<>>, raised |-> FALSE,
                     attempts |-> 1, opened |-> 1, closed |-> 1,
                     executed |-> TRUE, committed |-> FALSE, rolledback |-> TRUE]
               [] OTHER ->
                    \* cursor.execute raises and conn.rollback() raises in the handler
                    [rows |-> <<>>, raised |-> TRUE,
                     attempts |-> 1, opened |-> 1, closed |-> 1,
                     executed |-> FALSE, committed |-> FALSE, rolledback |-> FALSE]

\* A statement as the cursor sees it: whether it yields a result set
\* (cursor.description), the rows fetchall() gives and cursor.rowcount
Statements ==
    [select |-> [description |-> TRUE,  rows |-> <<"r1", "r2">>, rowcount |-> 2],
     update |-> [description |-> FALSE, rows |-> <<>>,           rowcount |-> 3]]

\* Python values returned by execute_query
Rows(rows) == [list |-> rows]
Count(n) == [int |-> n]

\* variant: the rows fetched before a failing commit are returned
execute_query_fetch_KeepsRows(statement, fetch, fault) ==
    LET conn == get_connection(fault)
        empty == IF fetch THEN Rows(<<>>) ELSE Count(0)
        base == [value |-> empty, raised |-> FALSE, attempts |-> 1, opened |-> 1,
                 closed |-> 1, executed |-> FALSE, committed |-> FALSE,
                 rolledback |-> FALSE]
    IN  IF conn = None
        THEN [base EXCEPT !.opened = 0, !.closed = 0]
        ELSE CASE fault = "none" ->
                    [base EXCEPT !.executed = TRUE, !.committed = TRUE,
                                 !.value = IF fetch /\ statement.description
                                           THEN Rows(statement.rows)
                                           ELSE Count(statement.rowcount)]
               [] fault = "execute" ->
                    [base EXCEPT !.rolledback = TRUE]
               [] fault = "commit" ->
                    [base EXCEPT !.executed = TRUE, !.rolledback = TRUE,
                                 !.value = IF fetch /\ statement.description
                                           THEN Rows(statement.rows)
                                           ELSE empty]
               [] OTHER ->
                    [base EXCEPT !.raised = TRUE]

\* execute_query(query, params, fetch) for any statement: [value, raised] and
\* what happened to the connection
execute_query_fetch(statement, fetch, fault) ==
    LET conn == get_connection(fault)
        empty == IF fetch THEN Rows(<<>>) ELSE Count(0)
        base == [value |-> empty, raised |-> FALSE, attempts |-> 1, opened |-> 1,
                 closed |-> 1, executed |-> FALSE, committed |-> FALSE,
                 rolledback |-> FALSE]
    IN  IF conn = None
        THEN [base EXCEPT !.opened = 0, !.closed = 0]
        ELSE CASE fault = "none" ->
                    [base EXCEPT !.executed = TRUE, !.committed = TRUE,
                                 !.value = IF fetch /\ statement.description
                                           THEN Rows(statement.rows)
                                           ELSE Count(statement.rowcount)]
               [] fault = "execute" ->
                    \* cursor.execute or fetchall raises; rollback; return [] or 0
                    [base EXCEPT !.rolledback = TRUE]
               [] fault = "commit" ->
                    \* conn.commit() raises after the fetch; rollback; return [] or 0
                    [base EXCEPT !.executed = TRUE, !.rolledback = TRUE]
               [] OTHER ->
                    \* cursor.execute raises and conn.rollback() raises in the handler
                    [base EXCEPT !.raised = TRUE]

NoQuery ==
    [rows |-> <<>>, raised |-> FALSE, attempts |-> 0, opened |-> 0, closed |-> 0,
     executed |-> FALSE, committed |-> FALSE, rolledback |-> FALSE]

-----------------------------------------------------------------------------
(* auth.py *)

\* variant: 'linked_id' filled from the id column
UserData_LinkedIsId(user) ==
    [username |-> user.username, role |-> user.role,
     linked_id |-> user.id, display_name |-> user.display_name]

\* The dict authenticate builds from the first row
UserData(user) ==
    [username |-> user.username, role |-> user.role,
     linked_id |-> user.linked_id, display_name |-> user.display_name]

\* variant: without the "if password" test
authenticate_AnyPassword(username, password, fault) ==
    LET q == execute_query(username, fault)
    IN  IF q.raised
        THEN [result |-> None, query |-> q]
        ELSE IF q.rows # <<>>
             THEN [result |-> UserData(q.rows[1]), query |-> q]
             ELSE [result |-> None, query |-> q]

\* variant: without the try/except around the lookup
authenticate_Propagates(username, password, fault) ==
    LET q == execute_query(username, fault)
    IN  IF q.raised
        THEN [result |-> [type |-> "Exception"], query |-> q]
        ELSE IF q.rows # <<>> /\ password # ""
             THEN [result |-> UserData(q.rows[1]), query |-> q]
             ELSE [result |-> None, query |-> q]

\* AuthenticationSystem.authenticate: [result, query]
authenticate(username, password, fault) ==
    LET q == execute_query(username, fault)
    IN  IF q.raised
        THEN [result |-> None, query |-> q]
        ELSE IF q.rows # <<>> /\ password # ""
             THEN [result |-> UserData(q.rows[1]), query |-> q]
             ELSE [result |-> None, query |-> q]

\* variant: last_activity read from the clock before login_time
initialize_session_Swapped(state, user_data, t1, t2) ==
    LET s1 == Update(state, [authenticated |-> TRUE, user |-> user_data,
                             login_time |-> datetime(t2), last_activity |-> datetime(t1)])
        role == user_data.role
        s2 == Put(s1, role \o "_id", user_data.linked_id)
    IN  Put(s2, role \o "_name", Get(user_data, "display_name", user_data.username))

\* AuthenticationSystem.initialize_session; t1 and t2 are the two clock reads
initialize_session(state, user_data, t1, t2) ==
    LET s1 == Update(state, [authenticated |-> TRUE, user |-> user_data,
                             login_time |-> datetime(t1), last_activity |-> datetime(t2)])
        role == user_data.role
        s2 == Put(s1, role \o "_id", user_data.linked_id)
    IN  Put(s2, role \o "_name", Get(user_data, "display_name", user_data.username))

\* del st.session_state[key]
Del(state, key) == [k \in DOMAIN state \ {key} |-> state[k]]

\* for key in list(st.session_state.keys()): del st.session_state[key]
RECURSIVE DelAll(_, _)
DelAll(state, keys) ==
    IF keys = {} THEN state
    ELSE LET key == CHOOSE k \in keys : TRUE
         IN  DelAll(Del(state, key), keys \ {key})

\* variant: only the flag is reset, the other keys stay
logout_FlagOnly(state) ==
    [state |-> Put(state, "authenticated", FALSE), raised |-> FALSE,
     username |-> Get(Get(state, "user", EmptyState), "username", "Inconnu")]

\* variant: only the keys initialize_session's update() wrote are deleted
logout_KnownKeys(state) ==
    [state |-> DelAll(state, DOMAIN state \cap
                               {"authenticated", "user", "login_time", "last_activity"}),
     raised |-> FALSE,
     username |-> Get(Get(state, "user", EmptyState), "username", "Inconnu")]

\* variant: st.session_state['user'] instead of .get('user', {})
logout_RequiresUser(state) ==
    IF "user" \notin DOMAIN state
    THEN [state |-> state, raised |-> TRUE, username |-> "Inconnu"]
    ELSE [state |-> DelAll(state, DOMAIN state), raised |-> FALSE,
          username |-> Get(state["user"], "username", "Inconnu")]

\* AuthenticationSystem.logout: [state, raised, username].  The lookup of the
\* username for the log line raises when 'user' holds a value without .get
logout(state) ==
    LET user == Get(state, "user", EmptyState)
    IN  IF user = None
        THEN [state |-> state, raised |-> TRUE, username |-> "Inconnu"]
        ELSE [state |-> DelAll(state, DOMAIN state), raised |-> FALSE,
              username |-> Get(user, "username", "Inconnu")]

\* variant: a session without last_activity counts as fresh
check_session_timeout_FailOpen(state, timeout_minutes, t) ==
    IF "last_activity" \notin DOMAIN state
    THEN FALSE
    ELSE LET raw == state["last_activity"]
             last_activity == IF isinstance_str(raw) THEN fromisoformat(raw) ELSE raw
         IN  t - last_activity.dt > timedelta(timeout_minutes)

\* variant: timedelta(hours=timeout_minutes)
check_session_timeout_Hours(state, timeout_minutes, t) ==
    IF "last_activity" \notin DOMAIN state
    THEN TRUE
    ELSE LET raw == state["last_activity"]
             last_activity == IF isinstance_str(raw) THEN fromisoformat(raw) ELSE raw
         IN  t - last_activity.dt > 60 * timedelta(timeout_minutes)

\* variant: the age of the login instead of the idle time
check_session_timeout_FromLogin(state, timeout_minutes, t) ==
    IF "login_time" \notin DOMAIN state
    THEN TRUE
    ELSE t - state["login_time"].dt > timedelta(timeout_minutes)

\* variant: >= in place of >
check_session_timeout_NonStrict(state, timeout_minutes, t) ==
    IF "last_activity" \notin DOMAIN state
    THEN TRUE
    ELSE LET raw == state["last_activity"]
             last_activity == IF isinstance_str(raw) THEN fromisoformat(raw) ELSE raw
         IN  t - last_activity.dt >= timedelta(timeout_minutes)

\* AuthenticationSystem.check_session_timeout, read at clock t
check_session_timeout(state, timeout_minutes, t) ==
    IF "last_activity" \notin DOMAIN state
    THEN TRUE
    ELSE LET raw == state["last_activity"]
             last_activity == IF isinstance_str(raw) THEN fromisoformat(raw) ELSE raw
         IN  t - last_activity.dt > timedelta(timeout_minutes)

\* variant: without the test of 'authenticated'
update_activity_Unconditional(state, t) == Put(state, "last_activity", datetime(t))

\* variant: the refresh restarts the session, login_time included
update_activity_Relogin(state, t) ==
    IF "authenticated" \in DOMAIN state /\ state["authenticated"] = TRUE
    THEN Put(Put(state, "last_activity", datetime(t)), "login_time", datetime(t))
    ELSE state

\* AuthenticationSystem.update_activity, read at clock t
update_activity(state, t) ==
    IF "authenticated" \in DOMAIN state /\ state["authenticated"] = TRUE
    THEN Put(state, "last_activity", datetime(t))
    ELSE state

-----------------------------------------------------------------------------
(* student.py, professor.py, department_head.py: what a role dashboard reads
   from the session and the keyed widgets it registers *)

NoDashboard == [name |-> "none", query_id |-> -1]

\* a dashboard that reads st.session_state.user from a state without the key
\* ends in AttributeError
DashboardError == [name |-> "error", query_id |-> -1]

render_student_dashboard(state) ==
    IF "user" \notin DOMAIN state
    THEN DashboardError
    ELSE [name |-> "student", query_id |-> state["user"].linked_id]

render_professor_dashboard(state) ==
    IF "user" \notin DOMAIN state
    THEN [name |-> "rejected", query_id |-> -1]
    ELSE IF Get(state["user"], "role", "") # "professeur"
         THEN [name |-> "rejected", query_id |-> -1]
         ELSE [name |-> "professor", query_id |-> Get(state["user"], "linked_id", 1)]

render_department_head_dashboard(state) ==
    IF "user" \notin DOMAIN state
    THEN DashboardError
    ELSE [name |-> "department_head",
          query_id |-> Get(state["user"], "linked_entity_id", 0)]

\* the try block of show_main_interface
RenderDashboard(state) ==
    LET role == state["user"].role
    IN  CASE role = "etudiant"         -> render_student_dashboard(state)
          [] role = "professeur"       -> render_professor_dashboard(state)
          [] role = "chef_departement" -> render_department_head_dashboard(state)
          [] OTHER                     -> NoDashboard

\* st.date_input(..., key="new_start") of the professor's management tab
WidgetKey == "new_start"
WidgetValue == "2026-01-15"

-----------------------------------------------------------------------------
(* main.py: one run of the script *)

Usernames == {"", "alice", "bob", "carol", "dave", "zoe", "Alice"}
Passwords == {"", "secret", "x"}
Events == {"load", "submit", "logout_click"}
TickSteps == {600, 3300, 3600, 3601}

NoCall == [op |-> "none", event |-> "load", username |-> "", password |-> "",
           fault |-> "none", timeout_minutes |-> 0, on_empty |-> FALSE,
           fetch |-> TRUE, ctx |-> 0, statement |-> "none"]

\* return values: None, a user dict, a bool, or an exception leaving the operation
Bool(b) == [bool |-> b]
Raised == [type |-> "Exception"]

NotChecked == [done |-> FALSE, expired |-> FALSE, idle |-> 0]

Init ==
    /\ session = EmptyState
    /\ now = 0
    /\ view = "none"
    /\ message = "none"
    /\ checked = NotChecked
    /\ rerun = FALSE
    /\ dashboard = NoDashboard
    /\ call = NoCall
    /\ ret = None
    /\ db = NoQuery
    /\ drift = 0
    /\ peer = EmptyState

\* a handler reads the clock a second time d seconds after the first read
Skew(d) ==
    /\ d \in 0..MaxSkew
    /\ now + d <= MaxNow
    /\ drift + d <= MaxDrift
    /\ now' = now + d
    /\ drift' = drift + d

\* time passes; the operation that had just returned is no longer the last event
Tick(d) ==
    /\ now + d <= MaxNow
    /\ now' = now + d
    /\ call' = NoCall
    /\ ret' = None
    /\ UNCHANGED <<session, view, message, checked, rerun, dashboard, db, drift, peer>>

\* the widgets an event comes from were drawn by the previous run, and a
\* run started by st.rerun() carries no new event
EventPossible(event) ==
    /\ rerun => event = "load"
    /\ event = "submit" => view = "login"
    /\ event = "logout_click" => view = "main" /\ ~rerun

\* variant: the flag is reset at the start of every run
EnsureAuthenticated_Reset(state) == Put(state, "authenticated", FALSE)

\* if 'authenticated' not in st.session_state: st.session_state.authenticated = False
EnsureAuthenticated(state) ==
    IF "authenticated" \notin DOMAIN state THEN Put(state, "authenticated", FALSE) ELSE state

\* main(): the session is authenticated and check_session_timeout() is true
MainExpired ==
    LET s0 == EnsureAuthenticated(session)
    IN  /\ s0["authenticated"] = TRUE
        /\ check_session_timeout(s0, DefaultTimeoutMinutes, now)
        /\ \E event \in Events :
              /\ EventPossible(event)
              /\ call' = [NoCall EXCEPT !.op = "logout", !.event = event]
        /\ session' = logout(s0).state
        /\ message' = "Session expirée. Veuillez vous reconnecter."
        /\ checked' = [done |-> TRUE, expired |-> TRUE,
                       idle |-> IF "last_activity" \in DOMAIN s0
                                THEN now - s0["last_activity"].dt ELSE -1]
        /\ rerun' = TRUE
        /\ view' = "none"
        /\ dashboard' = NoDashboard
        /\ ret' = None
        /\ db' = NoQuery
        /\ UNCHANGED <<now, drift, peer>>

\* main(): the session is authenticated and fresh; show_main_interface()
MainAuthenticated ==
    LET s0 == EnsureAuthenticated(session)
    IN  /\ s0["authenticated"] = TRUE
        /\ ~check_session_timeout(s0, DefaultTimeoutMinutes, now)
        /\ UNCHANGED peer
        /\ \E event \in Events \ {"submit"}, d \in 0..MaxSkew, widgets \in BOOLEAN :
              LET s1 == update_activity(s0, now + d)
                  shown == RenderDashboard(s1)
              IN  /\ EventPossible(event)
                  /\ Skew(d)
                  /\ checked' = [done |-> TRUE, expired |-> FALSE,
                                 idle |-> now - s0["last_activity"].dt]
                  /\ view' = "main"
                  /\ message' = "none"
                  /\ ret' = None
                  /\ db' = NoQuery
                  /\ IF event = "logout_click"
                     THEN /\ session' = logout(s1).state
                          /\ rerun' = TRUE
                          /\ dashboard' = NoDashboard
                          /\ call' = [NoCall EXCEPT !.op = "logout", !.event = event]
                     ELSE /\ session' = IF widgets /\ shown.name = "professor"
                                        THEN Put(s1, WidgetKey, WidgetValue) ELSE s1
                          /\ rerun' = FALSE
                          /\ dashboard' = shown
                          /\ call' = [NoCall EXCEPT !.op = "main", !.event = event]

\* variant: the message tells a lookup that could not run from a rejected login
FailureMessage_ByReason(query) ==
    IF query.opened = 0 \/ ~query.executed
    THEN "Service indisponible, veuillez réessayer"
    ELSE "Nom d'utilisateur ou mot de passe incorrect"

\* st.error(...) of the else branch of "if user"; query is what the lookup did
FailureMessage(query) == "Nom d'utilisateur ou mot de passe incorrect"

\* main(): the session is not authenticated; show_login_interface() and
\* render_login_form()
MainLogin ==
    LET s0 == EnsureAuthenticated(session)
    IN  /\ s0["authenticated"] = FALSE
        /\ view' = "login"
        /\ checked' = NotChecked
        /\ UNCHANGED peer
        /\ dashboard' = NoDashboard
        /\ \E event \in Events \ {"logout_click"} :
              /\ EventPossible(event)
              /\ IF event # "submit"
                 THEN /\ session' = s0
                      /\ message' = "none"
                      /\ rerun' = FALSE
                      /\ call' = NoCall
                      /\ ret' = None
                      /\ db' = NoQuery
                      /\ UNCHANGED <<now, drift>>
                 ELSE \E username \in Usernames, password \in Passwords :
                        IF username = "" \/ password = ""
                        THEN /\ session' = s0
                             /\ message' = "Veuillez remplir tous les champs"
                             /\ rerun' = FALSE
                             /\ call' = [NoCall EXCEPT !.event = event,
                                            !.username = username, !.password = password]
                             /\ ret' = None
                             /\ db' = NoQuery
                             /\ UNCHANGED <<now, drift>>
                        ELSE \E fault \in Faults, d \in 0..MaxSkew :
                               LET a == authenticate(username, password, fault)
                               IN  /\ call' = [NoCall EXCEPT !.op = "authenticate",
                                                  !.event = event, !.username = username,
                                                  !.password = password, !.fault = fault]
                                   /\ ret' = a.result
                                   /\ db' = a.query
                                   /\ IF a.result # None
                                      THEN /\ Skew(d)
                                           /\ session' = initialize_session(s0, a.result, now, now + d)
                                           /\ message' = "Bienvenue"
                                           /\ rerun' = TRUE
                                      ELSE /\ session' = s0
                                           /\ UNCHANGED <<now, drift>>
                                           /\ message' = FailureMessage(a.query)
                                           /\ rerun' = FALSE

Next ==
    \/ \E d \in TickSteps : Tick(d)
    \/ MainExpired
    \/ MainAuthenticated
    \/ MainLogin

Spec == Init /\ [][Next]_vars

-----------------------------------------------------------------------------
(* The login path on its own: authenticate called with any arguments from an
   anonymous session, initialize_session on the record it returned
   (auth.py lines 153-155), logout *)

InitAuth ==
    /\ session \in {EmptyState, [authenticated |-> FALSE]}
    /\ now = 0
    /\ view = "none"
    /\ message = "none"
    /\ checked = NotChecked
    /\ rerun = FALSE
    /\ dashboard = NoDashboard
    /\ call = NoCall
    /\ ret = None
    /\ db = NoQuery
    /\ drift = 0
    /\ peer = EmptyState

Authenticate(username, password, fault) ==
    LET a == authenticate(username, password, fault)
    IN  /\ Get(session, "authenticated", FALSE) = FALSE
        /\ call' = [NoCall EXCEPT !.op = "authenticate", !.username = username,
                                  !.password = password, !.fault = fault]
        /\ ret' = a.result
        /\ db' = a.query
        /\ UNCHANGED <<session, now, view, message, checked, rerun, dashboard, drift, peer>>

InitializeSession ==
    /\ call.op = "authenticate"
    /\ ret # None
    /\ \E d \in 0..MaxSkew :
          /\ Skew(d)
          /\ session' = initialize_session(session, ret, now, now + d)
    /\ call' = [call EXCEPT !.op = "initialize_session"]
    /\ ret' = None
    /\ UNCHANGED <<view, message, checked, rerun, dashboard, db, peer>>

Logout ==
    LET r == logout(session)
    IN  /\ session' = r.state
        /\ call' = [NoCall EXCEPT !.op = "logout", !.on_empty = (session = EmptyState)]
        /\ ret' = IF r.raised THEN Raised ELSE None
        /\ UNCHANGED <<now, view, message, checked, rerun, dashboard, db, drift, peer>>

\* execute_query called on its own, as the dashboards' queries call it
ExecuteQuery(name, fetch, fault) ==
    LET q == execute_query_fetch(Statements[name], fetch, fault)
    IN  /\ call' = [NoCall EXCEPT !.op = "execute_query", !.statement = name,
                                  !.fetch = fetch, !.fault = fault]
        /\ ret' = IF q.raised THEN Raised ELSE q.value
        /\ db' = [rows |-> <<>>, raised |-> q.raised, attempts |-> q.attempts,
                  opened |-> q.opened, closed |-> q.closed, executed |-> q.executed,
                  committed |-> q.committed, rolledback |-> q.rolledback]
        /\ UNCHANGED <<session, now, view, message, checked, rerun, dashboard, drift, peer>>

NextAuth ==
    \/ \E username \in Usernames, password \in Passwords, fault \in Faults :
          Authenticate(username, password, fault)
    \/ \E name \in DOMAIN Statements, fetch \in BOOLEAN, fault \in Faults :
          ExecuteQuery(name, fetch, fault)
    \/ InitializeSession
    \/ Logout

SpecAuth == InitAuth /\ [][NextAuth]_vars

-----------------------------------------------------------------------------
(* The session operations on their own, from any well-typed session state *)

\* the records authenticate can return
Identities == {authenticate(users[i].username, "secret", "none").result :
                 i \in {j \in 1..Len(users) : users[j].is_active}}

Opt(key, values) == {EmptyState} \cup {key :> v : v \in values}

RoleFields(user_data) ==
    (user_data.role \o "_id") :> user_data.linked_id
        @@ (user_data.role \o "_name") :> user_data.display_name

LastActivityInit ==
    {datetime(64), datetime(65), datetime(66), isoformat(datetime(64)), isoformat(datetime(66))}

SessionStates ==
    {a @@ u @@ lt @@ la @@ rf @@ w :
        a \in Opt("authenticated", BOOLEAN),
        u \in Opt("user", Identities),
        lt \in Opt("login_time", {datetime(5)}),
        la \in Opt("last_activity", LastActivityInit),
        rf \in {EmptyState} \cup {RoleFields(i) : i \in Identities},
        w \in Opt(WidgetKey, {WidgetValue})}

Timeouts == {0, 1, DefaultTimeoutMinutes}

InitSession ==
    /\ session \in SessionStates
    /\ now = 65 + timedelta(DefaultTimeoutMinutes)
    /\ view = "none"
    /\ message = "none"
    /\ checked = NotChecked
    /\ rerun = FALSE
    /\ dashboard = NoDashboard
    /\ call = NoCall
    /\ ret = None
    /\ db = NoQuery
    /\ drift = 0
    /\ peer = EmptyState

CheckSessionTimeout(timeout_minutes) ==
    /\ call' = [NoCall EXCEPT !.op = "check_session_timeout",
                              !.timeout_minutes = timeout_minutes]
    /\ ret' = Bool(check_session_timeout(session, timeout_minutes, now))
    /\ UNCHANGED <<session, now, view, message, checked, rerun, dashboard, db, drift, peer>>

UpdateActivity ==
    /\ session' = update_activity(session, now)
    /\ call' = [NoCall EXCEPT !.op = "update_activity"]
    /\ ret' = None
    /\ UNCHANGED <<now, view, message, checked, rerun, dashboard, db, drift, peer>>

EstablishSession(user_data) ==
    /\ \E d \in 0..MaxSkew :
          /\ Skew(d)
          /\ session' = initialize_session(session, user_data, now, now + d)
    /\ call' = [NoCall EXCEPT !.op = "initialize_session", !.username = user_data.username]
    /\ ret' = None
    /\ UNCHANGED <<view, message, checked, rerun, dashboard, db, peer>>

\* a role dashboard invoked on the session state as it is
Dashboards == {"student", "professor", "department_head"}

RenderCall(name) ==
    /\ call' = [NoCall EXCEPT !.op = "render_" \o name \o "_dashboard",
                              !.on_empty = (session = EmptyState)]
    /\ ret' = CASE name = "student"   -> render_student_dashboard(session)
                [] name = "professor" -> render_professor_dashboard(session)
                [] OTHER              -> render_department_head_dashboard(session)
    /\ UNCHANGED <<session, now, view, message, checked, rerun, dashboard, db, drift, peer>>

NextSession ==
    \/ \E d \in TickSteps : Tick(d)
    \/ Logout
    \/ \E name \in Dashboards : RenderCall(name)
    \/ \E timeout_minutes \in Timeouts : CheckSessionTimeout(timeout_minutes)
    \/ UpdateActivity
    \/ \E user_data \in Identities : EstablishSession(user_data)

SpecSession == InitSession /\ [][NextSession]_vars

-----------------------------------------------------------------------------
(* Two interaction contexts served by the same process.  Streamlit gives each
   browser session its own st.session_state; the operations of auth.py read
   and write no other store *)

Contexts == {1, 2}
ContextSteps == {1800}

\* st.session_state as seen by the script run of a context
session_state(ctx) == IF ctx = 1 THEN session ELSE peer

\* variant: one store for the whole process
SetSessionState_Shared(ctx, state) == session' = state /\ peer' = state

\* the writes of a script run go to the st.session_state of its own context
SetSessionState(ctx, state) ==
    IF ctx = 1 THEN session' = state /\ peer' = peer
               ELSE peer' = state /\ session' = session

InitContexts ==
    /\ session = EmptyState
    /\ peer = EmptyState
    /\ now = 0
    /\ view = "none"
    /\ message = "none"
    /\ checked = NotChecked
    /\ rerun = FALSE
    /\ dashboard = NoDashboard
    /\ call = NoCall
    /\ ret = None
    /\ db = NoQuery
    /\ drift = 0

ContextInitializeSession(ctx, user_data) ==
    /\ \E d \in 0..MaxSkew :
          /\ Skew(d)
          /\ SetSessionState(ctx, initialize_session(session_state(ctx), user_data,
                                                     now, now + d))
    /\ call' = [NoCall EXCEPT !.op = "initialize_session", !.ctx = ctx,
                              !.username = user_data.username]
    /\ ret' = None
    /\ UNCHANGED <<view, message, checked, rerun, dashboard, db>>

ContextUpdateActivity(ctx) ==
    /\ SetSessionState(ctx, update_activity(session_state(ctx), now))
    /\ call' = [NoCall EXCEPT !.op = "update_activity", !.ctx = ctx]
    /\ ret' = None
    /\ UNCHANGED <<now, view, message, checked, rerun, dashboard, db, drift>>

ContextLogout(ctx) ==
    LET r == logout(session_state(ctx))
    IN  /\ SetSessionState(ctx, r.state)
        /\ call' = [NoCall EXCEPT !.op = "logout", !.ctx = ctx,
                                  !.on_empty = (session_state(ctx) = EmptyState)]
        /\ ret' = IF r.raised THEN Raised ELSE None
        /\ UNCHANGED <<now, view, message, checked, rerun, dashboard, db, drift>>

NextContexts ==
    \/ \E d \in ContextSteps : Tick(d)
    \/ \E ctx \in Contexts, user_data \in Identities : ContextInitializeSession(ctx, user_data)
    \/ \E ctx \in Contexts : ContextUpdateActivity(ctx)
    \/ \E ctx \in Contexts : ContextLogout(ctx)

SpecContexts == InitContexts /\ [][NextContexts]_vars

-----------------------------------------------------------------------------
(* Properties *)

\* the users table holds an active record with this username
HasActiveUser(username) ==
    \E i \in 1..Len(users) : users[i].username = username /\ users[i].is_active

\* the record the lookup yields for the active user of this name
ActiveRecords(username) ==
    {Row(users[i]) : i \in {j \in 1..Len(users) :
                              users[j].username = username /\ users[j].is_active}}

\* seconds between the session's last_activity and the clock
IdleSeconds ==
    LET v == session["last_activity"]
    IN  IF "iso" \in DOMAIN v
        THEN now - (v.iso[1] * 3600 + v.iso[2] * 60 + v.iso[3])
        ELSE now - v.dt

IsAuthenticated(state) ==
    "authenticated" \in DOMAIN state /\ state["authenticated"] = TRUE

C2_NoActiveUserFails ==
    (call.op = "authenticate" /\ ~HasActiveUser(call.username)) => ret = None

C2_Witness ==
    /\ call.op = "authenticate"
    /\ call.username = "dave"
    /\ call.password = "secret"
    /\ call.fault = "none"
    /\ ret = None

\* C3: authenticate with an empty password returns None for every username,
\* an active user's included, and no session is established.
C3_EmptyPasswordFails ==
    (call.op = "authenticate" /\ call.password = "")
        => /\ ret = None
           /\ ~IsAuthenticated(session)
           /\ "user" \notin DOMAIN session
           /\ ~ENABLED InitializeSession

C3_Witness ==
    /\ call.op = "authenticate"
    /\ call.username = "bob"
    /\ call.password = ""
    /\ call.fault = "none"

\* C4: check_session_timeout(60) is true when more than 60 minutes passed
\* since last_activity, false at 59 minutes 59 seconds, and true when the
\* session holds no last_activity.
C4_TimeoutCases ==
    (call.op = "check_session_timeout" /\ call.timeout_minutes = 60)
        => IF "last_activity" \notin DOMAIN session
           THEN ret = Bool(TRUE)
           ELSE /\ IdleSeconds > 60 * 60 => ret = Bool(TRUE)
                /\ IdleSeconds = 59 * 60 + 59 => ret = Bool(FALSE)

C4_Witness ==
    /\ call.op = "check_session_timeout"
    /\ call.timeout_minutes = 60
    /\ "last_activity" \in DOMAIN session
    /\ IdleSeconds = 59 * 60 + 59
    /\ ret = Bool(FALSE)

\* C5: a run of main() shows the main interface only after
\* check_session_timeout() returned false in that run; a session idle for more
\* than 60 minutes at the check is not shown a protected view.
C5_MainOnlyWhenFresh ==
    view = "main" => /\ checked.done
                     /\ ~checked.expired
                     /\ checked.idle <= 60 * 60

C5_Witness ==
    /\ view = "main"
    /\ dashboard.name = "professor"
    /\ checked.idle = 60 * 60

\* C6: a run that finds the session authenticated and timed out calls logout()
\* and reruns; the next run starts from the anonymous state (authenticated
\* False, no user, login_time or last_activity) and shows the login interface.
C6_ExpiredGoesToLogin ==
    [][(checked.done /\ checked.expired)
          => /\ session = EmptyState
             /\ rerun
             /\ view # "main"
             /\ (view' # view
                   => /\ view' = "login"
                      /\ session' = [authenticated |-> FALSE])]_vars

C6_Witness ==
    /\ checked.done
    /\ checked.expired
    /\ checked.idle > 60 * 60
    /\ rerun
    /\ session = EmptyState

\* C7: logout() removes every key of the session state, whatever it held.
C7_LogoutEmptiesState ==
    call.op = "logout" => DOMAIN session = {}

C7_Witness ==
    /\ call.op = "logout"
    /\ ~call.on_empty
    /\ DOMAIN session = {}

\* C8: logout() on an already empty state completes without error and leaves
\* it empty, and a second logout() gives the state of the first.
C8_LogoutIdempotent ==
    call.op = "logout"
        => /\ ret = None
           /\ call.on_empty => session = EmptyState
           /\ ~logout(session).raised
           /\ logout(session).state = session

C8_Witness ==
    /\ call.op = "logout"
    /\ call.on_empty
    /\ ret = None

\* C9: after logout(), check_session_timeout() is true for every prior session
\* content and every timeout value.
C9_ExpiredAfterLogout ==
    (call.op = "logout" /\ ret = None)
        => \A timeout_minutes \in Timeouts :
              check_session_timeout(session, timeout_minutes, now)

C9_Witness ==
    /\ call.op = "logout"
    /\ ~call.on_empty
    /\ ret = None
    /\ check_session_timeout(session, DefaultTimeoutMinutes, now)

\* C10: update_activity() leaves the whole session state unchanged when
\* 'authenticated' is absent or false.
C10_UpdateActivityNoOp ==
    [][(call'.op = "update_activity" /\ ~IsAuthenticated(session))
          => session' = session]_vars

C10_Witness ==
    /\ call.op = "update_activity"
    /\ "authenticated" \in DOMAIN session
    /\ session["authenticated"] = FALSE
    /\ "last_activity" \notin DOMAIN session

\* C11: in every state reached through runs of main(), form submissions and
\* logout, authenticated is true exactly when the session holds a non-null
\* 'user' and a login_time.
C11_AuthenticatedIffIdentity ==
    IsAuthenticated(session)
        <=> /\ "user" \in DOMAIN session
            /\ session["user"] # None
            /\ "login_time" \in DOMAIN session

C11_Witness ==
    /\ IsAuthenticated(session)
    /\ "user" \in DOMAIN session
    /\ "login_time" \in DOMAIN session
    /\ view = "main"
    /\ WidgetKey \in DOMAIN session

\* C12: whenever the session holds both timestamps, last_activity >= login_time.
C12_ActivityNotBeforeLogin ==
    ("login_time" \in DOMAIN session /\ "last_activity" \in DOMAIN session)
        => session["last_activity"].dt >= session["login_time"].dt

C12_Witness ==
    /\ "login_time" \in DOMAIN session
    /\ "last_activity" \in DOMAIN session
    /\ session["last_activity"].dt > session["login_time"].dt + timedelta(10)
    /\ view = "main"

\* C13 as stated: immediately after initialize_session the session is
\* authenticated and login_time and last_activity are the same instant.
C13_AsStated ==
    call.op = "initialize_session"
        => /\ IsAuthenticated(session)
           /\ session["login_time"] = session["last_activity"]

\* C13 amended: initialize_session leaves the session authenticated with two
\* clock readings taken during the call, login_time first:
\* clock at entry <= login_time <= last_activity <= clock at return.
C13_TwoClockReads ==
    [][call'.op = "initialize_session"
          => /\ IsAuthenticated(session')
             /\ now <= session'["login_time"].dt
             /\ session'["login_time"].dt <= session'["last_activity"].dt
             /\ session'["last_activity"].dt <= now']_vars

C13_Witness ==
    /\ call.op = "initialize_session"
    /\ IsAuthenticated(session)
    /\ session["last_activity"].dt = session["login_time"].dt + 1
    /\ session["last_activity"].dt = now

\* C14: after initialize_session(user_data) the session state holds no field
\* carried over from an earlier session, in particular no '<role>_id' or
\* '<role>_name' of an identity with another role.
C14_NoStaleRoleFields ==
    [][\A i \in Identities :
          (/\ IsAuthenticated(session)
           /\ "user" \in DOMAIN session
           /\ session["user"] = i
           /\ call'.op = "initialize_session"
           /\ session'["user"].role # i.role)
              => /\ (i.role \o "_id") \notin DOMAIN session'
                 /\ (i.role \o "_name") \notin DOMAIN session']_vars

\* C15: expiry is measured from last_activity, never from login_time: a run
\* reports the session expired exactly when more than 60 minutes passed since
\* the last activity, so a session refreshed at gaps of at most 60 minutes is
\* never reported expired however old its login is.
C15_ExpiryFromLastActivity ==
    checked.done => (checked.expired <=> checked.idle > 60 * 60)

C15_Witness ==
    /\ call.op = "main"
    /\ view = "main"
    /\ checked.done
    /\ ~checked.expired
    /\ checked.idle = 55 * 60
    /\ "login_time" \in DOMAIN session
    /\ now - session["login_time"].dt >= 65 * 60

\* C16: after logout() a role dashboard invoked on the cleared session state
\* is rejected back to login: it neither renders protected data nor fails
\* with an error.
C16_RenderRejectedAfterLogout ==
    [][(call.op = "logout" /\ ~call.on_empty /\ ret = None
           /\ call'.op \in {"render_" \o name \o "_dashboard" : name \in Dashboards})
          => ret'.name = "rejected"]_vars

\* C17: on any lookup fault (connection not opened, query, commit or rollback
\* raising) authenticate returns None, does not raise, and no session is
\* established.
C17_FailsClosedOnFault ==
    (call.op = "authenticate" /\ call.fault # "none")
        => /\ ret = None
           /\ ~IsAuthenticated(session)
           /\ "user" \notin DOMAIN session
           /\ ~ENABLED InitializeSession

C17_Witness ==
    /\ call.op = "authenticate"
    /\ call.username = "bob"
    /\ call.password = "secret"
    /\ call.fault = "rollback"
    /\ db.raised
    /\ ret = None

\* C18: a login submission whose lookup is unavailable shows a message that
\* differs from the credential-failure message of an unknown user.
C18_ServiceUnavailableDistinct ==
    (call.op = "authenticate" /\ call.event = "submit" /\ call.fault # "none")
        => message # "Nom d'utilisateur ou mot de passe incorrect"

\* C19: every failed authenticate call made from the login form ends in the
\* same visible outcome and the same session state, whatever the reason.
C19_UniformFailure ==
    (call.op = "authenticate" /\ call.event = "submit" /\ ret = None)
        => /\ message = "Nom d'utilisateur ou mot de passe incorrect"
           /\ view = "login"
           /\ ~rerun
           /\ session = [authenticated |-> FALSE]

C19_Witness ==
    /\ call.op = "authenticate"
    /\ call.event = "submit"
    /\ call.username = "bob"
    /\ call.fault = "connect"
    /\ ret = None
    /\ message = "Nom d'utilisateur ou mot de passe incorrect"

\* C20: every connection execute_query opened during authenticate is closed
\* when authenticate returns, on every exit path.
C20_ConnectionClosed ==
    call.op = "authenticate" => db.closed = db.opened

C20_Witness ==
    /\ call.op = "authenticate"
    /\ call.fault = "rollback"
    /\ db.raised
    /\ db.opened = 1
    /\ db.closed = 1

\* C21: authenticate makes one directory lookup per call: one connection
\* attempt, at most one connection opened, and a lookup that failed is
\* returned as failure without a second attempt.
C21_SingleLookup ==
    call.op = "authenticate"
        => /\ db.attempts = 1
           /\ db.opened <= 1
           /\ call.fault # "none" => ret = None

C21_Witness ==
    /\ call.op = "authenticate"
    /\ call.username = "alice"
    /\ call.password = "secret"
    /\ call.fault = "connect"
    /\ db.attempts = 1
    /\ db.opened = 0
    /\ ret = None

C23_QueriesScopedByLinkedId ==
    (dashboard.name \in Dashboards /\ "user" \in DOMAIN session)
        => dashboard.query_id = session["user"].linked_id

\* C24: in runs of main() update_activity() is never applied to a session that
\* is idle for more than 60 minutes at the moment last_activity is
\* overwritten (the clock read by update_activity).
C24_NoResurrection ==
    [][(/\ IsAuthenticated(session)
        /\ "last_activity" \in DOMAIN session
        /\ call'.op \in {"main", "logout"}
        /\ checked'.done
        /\ ~checked'.expired)
          => now' - session["last_activity"].dt <= timedelta(DefaultTimeoutMinutes)]_vars

\* C25: between initialize_session and the next logout the session's 'user'
\* and login_time never change: a run of main() on an authenticated session
\* (guard, check_session_timeout, update_activity) keeps every field it found
\* except last_activity.
C25_IdentityFrozen ==
    [][(IsAuthenticated(session) /\ IsAuthenticated(session'))
          => /\ session'["user"] = session["user"]
             /\ session'["login_time"] = session["login_time"]
             /\ \A k \in DOMAIN session \ {"last_activity"} :
                   k \in DOMAIN session' /\ session'[k] = session[k]]_vars

C25_Witness ==
    /\ call.op = "main"
    /\ IsAuthenticated(session)
    /\ session["user"].username = "carol"
    /\ checked.done
    /\ checked.idle = 600
    /\ session["login_time"].dt = 0
    /\ session["last_activity"].dt >= 1200

\* C26: logout() is the only operation that clears session state: a step in
\* which logout() was not called removes no session field and does not turn
\* an authenticated session into an unauthenticated one.
C26_OnlyLogoutClears ==
    [][call'.op # "logout"
          => /\ DOMAIN session \subseteq DOMAIN session'
             /\ IsAuthenticated(session) => IsAuthenticated(session')]_vars

C26_Witness ==
    /\ call.op = "main"
    /\ IsAuthenticated(session)
    /\ dashboard.name = "student"
    /\ checked.done
    /\ checked.idle = 3300
    /\ {"user", "login_time", "last_activity", "etudiant_id", "etudiant_name"}
          \subseteq DOMAIN session

\* C27: the session is anonymous before the first run of main() and becomes
\* authenticated only in a login
\* submission whose authenticate call succeeded (an active user, a non-empty
\* password, a lookup without fault) followed by initialize_session; a
\* submission whose authenticate fails, or with an empty field, leaves the
\* session state unchanged and unauthenticated.
C27_AuthenticatedOnlyByLogin ==
    [][/\ (view = "none" /\ ~rerun) => ~IsAuthenticated(session)
       /\ (~IsAuthenticated(session) /\ IsAuthenticated(session'))
           => /\ call'.op = "authenticate"
              /\ call'.event = "submit"
              /\ ret' # None
              /\ HasActiveUser(call'.username)
              /\ call'.password # ""
              /\ call'.fault = "none"
              /\ session'["user"].username = call'.username
       /\ (call'.event = "submit" /\ ret' = None)
           => /\ session' = session
              /\ ~IsAuthenticated(session')]_vars

C27_Witness ==
    /\ call.op = "authenticate"
    /\ call.event = "submit"
    /\ call.username = "dave"
    /\ call.password = "secret"
    /\ call.fault = "none"
    /\ ret = None
    /\ session = [authenticated |-> FALSE]
    /\ view = "login"

\* C28: in every state reached through login, logout and expiry cycles of
\* main(), the role-scoped fields are exactly '<role>_id' = linked_id and
\* '<role>_name' = display_name (username when display_name is absent) for the
\* role of the current identity; no such field of another role, or of an
\* earlier user, is present.
C28_RoleFieldsOfCurrentIdentity ==
    \A role \in {users[i].role : i \in 1..Len(users)} :
        IF IsAuthenticated(session) /\ session["user"].role = role
        THEN /\ (role \o "_id") \in DOMAIN session
             /\ session[role \o "_id"] = session["user"].linked_id
             /\ (role \o "_name") \in DOMAIN session
             /\ session[role \o "_name"] =
                    IF "display_name" \in DOMAIN session["user"]
                    THEN session["user"].display_name
                    ELSE session["user"].username
        ELSE /\ (role \o "_id") \notin DOMAIN session
             /\ (role \o "_name") \notin DOMAIN session

C28_Witness ==
    /\ IsAuthenticated(session)
    /\ session["user"].username = "bob"
    /\ session["professeur_id"] = 22
    /\ session["professeur_name"] = "Professeur Test"
    /\ session["login_time"].dt >= 3601
    /\ view = "main"

\* C29 as stated: execute_query returns [] (fetch) or 0 without running the
\* query when no connection opens; when the query raises it rolls back and
\* returns [] or 0; only on success does it commit and return the fetched
\* rows or the row count.
C29_AsStated ==
    call.op = "execute_query"
        => LET empty == IF call.fetch THEN Rows(<<>>) ELSE Count(0)
               st == Statements[call.statement]
               full == IF call.fetch /\ st.description
                       THEN Rows(st.rows) ELSE Count(st.rowcount)
           IN  /\ call.fault = "connect" => ret = empty /\ ~db.executed /\ db.opened = 0
               /\ call.fault \in {"execute", "rollback"} => ret = empty /\ db.rolledback
               /\ db.committed <=> call.fault = "none"
               /\ call.fault = "none" => ret = full

\* C29 amended: no connection: [] or 0, the query is not run; the query or the
\* commit raises: rollback, then [] or 0; the rollback raises as well: the
\* exception leaves execute_query and nothing is returned; success: commit,
\* then the fetched rows or the row count.  The connection is closed in every
\* case and rows are returned only after a commit.
C29_NoPartialResults ==
    call.op = "execute_query"
        => LET empty == IF call.fetch THEN Rows(<<>>) ELSE Count(0)
               st == Statements[call.statement]
               full == IF call.fetch /\ st.description
                       THEN Rows(st.rows) ELSE Count(st.rowcount)
           IN  /\ call.fault = "connect" => ret = empty /\ ~db.executed /\ db.opened = 0
               /\ call.fault \in {"execute", "commit"}
                     => ret = empty /\ db.rolledback /\ ~db.committed
               /\ call.fault = "rollback"
                     => ret = Raised /\ ~db.rolledback /\ ~db.committed
               /\ call.fault = "none" => ret = full /\ db.committed /\ ~db.rolledback
               /\ db.closed = db.opened

C29_Witness ==
    /\ call.op = "execute_query"
    /\ call.statement = "select"
    /\ call.fetch
    /\ call.fault = "commit"
    /\ db.executed
    /\ db.rolledback
    /\ ret = Rows(<<>>)

\* C30: the comparison of check_session_timeout is strict: idle for exactly
\* timeout_minutes is not expired, idle for longer is; and for a fixed
\* last_activity the result is monotone in the clock: true at one instant,
\* true at every later one.
C30_StrictAndMonotone ==
    "last_activity" \in DOMAIN session
        => /\ call.op = "check_session_timeout"
                => ret = [bool |-> IdleSeconds > call.timeout_minutes * 60]
           /\ \A timeout_minutes \in Timeouts :
                 \A t1 \in {now - 60, now - 1, now}, t2 \in {now, now + 1, now + 60} :
                     check_session_timeout(session, timeout_minutes, t1)
                        => check_session_timeout(session, timeout_minutes, t2)

C30_Witness ==
    /\ call.op = "check_session_timeout"
    /\ call.timeout_minutes = 60
    /\ "last_activity" \in DOMAIN session
    /\ IdleSeconds = 60 * 60
    /\ ret = Bool(FALSE)
    /\ check_session_timeout(session, 60, now + 1)

====
